---- MODULE Spec2Model ----
(***************************************************************************)
(* A model of fss.py: the corpus indexer (generate_substrings,             *)
(* process_words) and the quiz session GameApp with its persisted          *)
(* missed-prompt log.                                                      *)
(*                                                                         *)
(* A Python str is a sequence of one-character strings; the log file is    *)
(* the sequence of its characters, so that readlines, strip, split,        *)
(* startswith, int() and the in-place rewrite act on what is really there. *)
(***************************************************************************)
EXTENDS Integers, Sequences, FiniteSets, TLC

VARIABLES
    corpus_file,        \* dict.txt: the sequence of its lines (newline removed)
    pc,                 \* "load" | "construct" | "running" | "quit"
    runs,               \* how many times the program has been started
    unique_words,       \* module-level unique_words / GameApp.unique_words
    substrings,         \* the defaultdict(int) substring_counts: key -> count
    skipped_prompts,    \* GameApp.skipped_prompts
    missed_prompts,     \* GameApp.missed_prompts (loaded once)
    solved_prompts,     \* GameApp.solved_prompts
    total_prompts,      \* GameApp.total_prompts
    current_prompt,     \* GameApp.current_prompt (None or a str)
    prompt_label,       \* text of prompt_label
    error_label,        \* text of error_label
    solutions_listbox,  \* rows of solutions_listbox
    tracker_label,      \* text of tracker_label
    min_entry,          \* text of min_entry
    max_entry,          \* text of max_entry
    missed_only_var,    \* the BooleanVar behind the checkbox
    log_exists,         \* os.path.exists('missed_prompts.txt')
    log_bytes,          \* the characters of missed_prompts.txt
    event,              \* the last callback that ran, its input and how it ended
    pool_at_start,      \* history: what load_missed_prompts returned in this run
    skip_count          \* history: prompt -> number of completed skips, all runs

vars == <<corpus_file, pc, runs, unique_words, substrings, skipped_prompts,
          missed_prompts, solved_prompts, total_prompts, current_prompt,
          prompt_label, error_label, solutions_listbox, tracker_label,
          min_entry, max_entry, missed_only_var, log_exists, log_bytes,
          event, pool_at_start, skip_count>>

(***************************************************************************)
(* Bounds of the model.                                                    *)
(***************************************************************************)
\* lines of a corpus file drawn for the indexer's own specification
MaxLines == 3
\* program starts in one behaviour
MaxRuns == 2
\* completed skips in one behaviour, over all runs
MaxSkips == 3
\* prompts solved or skipped in one run
MaxTotal == 2

(***************************************************************************)
(* Python str operations.                                                  *)
(***************************************************************************)
NL == "\n"

None == <<"<None>">>

Uppers == <<"A","B","C","D","E","F","G","H","I","J","K","L","M",
            "N","O","P","Q","R","S","T","U","V","W","X","Y","Z">>

Lowers == <<"a","b","c","d","e","f","g","h","i","j","k","l","m",
            "n","o","p","q","r","s","t","u","v","w","x","y","z">>

Digits == <<"0","1","2","3","4","5","6","7","8","9">>

\* str.lower() on one character
LowerChar(c) ==
    IF \E i \in 1..26 : Uppers[i] = c
    THEN Lowers[CHOOSE i \in 1..26 : Uppers[i] = c]
    ELSE c

\* str.lower()
Lower(s) == [i \in 1..Len(s) |-> LowerChar(s[i])]

IsSpace(c) == c \in {" ", NL}

\* str.strip(): leading and trailing whitespace removed
Strip(s) ==
    LET keep == {i \in 1..Len(s) : ~IsSpace(s[i])}
    IN  IF keep = {} THEN <<>>
        ELSE LET lo == CHOOSE i \in keep : \A j \in keep : i <= j
                 hi == CHOOSE i \in keep : \A j \in keep : j <= i
             IN  SubSeq(s, lo, hi)

\* s[i:i+3] with i counted from 0: the slice stops at the end of s
Slice3(s, i) ==
    SubSeq(s, i + 1, IF i + 3 <= Len(s) THEN i + 3 ELSE Len(s))

\* p in s, for two str
IsSubstring(p, s) ==
    \E i \in 0..(Len(s) - Len(p)) : SubSeq(s, i + 1, i + Len(p)) = p

\* s.startswith(p)
StartsWith(s, p) ==
    Len(p) <= Len(s) /\ SubSeq(s, 1, Len(p)) = p

HasChar(s, c) == \E i \in 1..Len(s) : s[i] = c

(***************************************************************************)
(* The corpus indexer.                                                     *)
(***************************************************************************)
\* a plausible slip: range(len(word) - 3), the last window is lost
generate_substrings_short(word) ==
    {Slice3(word, i) : i \in {j \in 0..(Len(word) - 4) : ~HasChar(Slice3(word, j), "-")}}

generate_substrings(word) ==
    {Slice3(word, i) : i \in {j \in 0..(Len(word) - 3) : ~HasChar(Slice3(word, j), "-")}}

\* lines 15-19: the set of stripped, lowercased, non-empty lines
ReadWords(file) ==
    {Lower(Strip(file[i])) : i \in 1..Len(file)} \ {<<>>}

\* lines 21-26: one increment per word and substring of the word
CountSubstrings(words) ==
    LET keys == UNION {generate_substrings(w) : w \in words}
    IN  [k \in keys |-> Cardinality({w \in words : k \in generate_substrings(w)})]

(***************************************************************************)
(* Text helpers used by the missed-prompt log.                             *)
(***************************************************************************)
RECURSIVE Lines(_)
\* file.readlines(): each line keeps its newline; the last may lack one
Lines(b) ==
    IF b = <<>> THEN <<>>
    ELSE LET nls == {i \in 1..Len(b) : b[i] = NL}
         IN  IF nls = {} THEN <<b>>
             ELSE LET k == CHOOSE i \in nls : \A j \in nls : i <= j
                  IN  <<SubSeq(b, 1, k)>> \o Lines(SubSeq(b, k + 1, Len(b)))

RECURSIVE Concat(_)
\* what f.writelines(lines) writes
Concat(ls) ==
    IF ls = <<>> THEN <<>> ELSE Head(ls) \o Concat(Tail(ls))

RECURSIVE Split(_)
\* s.split(',')
Split(s) ==
    LET cs == {i \in 1..Len(s) : s[i] = ","}
    IN  IF cs = {} THEN <<s>>
        ELSE LET k == CHOOSE i \in cs : \A j \in cs : i <= j
             IN  <<SubSeq(s, 1, k - 1)>> \o Split(SubSeq(s, k + 1, Len(s)))

DigitValue(c) == (CHOOSE i \in 1..10 : Digits[i] = c) - 1

IsDigit(c) == \E i \in 1..10 : Digits[i] = c

RECURSIVE DigitsValue(_)
DigitsValue(ds) ==
    IF ds = <<>> THEN 0
    ELSE 10 * DigitsValue(SubSeq(ds, 1, Len(ds) - 1)) + DigitValue(ds[Len(ds)])

\* int(s): surrounding whitespace is ignored, one sign is allowed, the rest
\* must be one or more decimal digits; anything else is a ValueError
IntParse(s) ==
    LET t    == Strip(s)
        sgn  == Len(t) > 0 /\ t[1] \in {"+", "-"}
        body == IF sgn THEN Tail(t) ELSE t
        ok   == Len(body) > 0 /\ \A i \in 1..Len(body) : IsDigit(body[i])
    IN  [ok  |-> ok,
         val |-> IF ~ok THEN 0
                 ELSE IF sgn /\ t[1] = "-" THEN 0 - DigitsValue(body)
                 ELSE DigitsValue(body)]

RECURSIVE NatStr(_)
NatStr(n) ==
    IF n < 10 THEN <<Digits[n + 1]>>
    ELSE NatStr(n \div 10) \o <<Digits[(n % 10) + 1]>>

\* str(n) as an f-string renders an int
IntStr(n) == IF n < 0 THEN <<"-">> \o NatStr(0 - n) ELSE NatStr(n)

\* f"{prompt}": None renders as the text None
Render(prompt) == IF prompt = None THEN <<"N","o","n","e">> ELSE prompt

\* "Prompt,Missed Count\n"
Header ==
    <<"P","r","o","m","p","t",",","M","i","s","s","e","d"," ",
      "C","o","u","n","t",NL>>

(***************************************************************************)
(* The missed-prompt log.                                                  *)
(***************************************************************************)
\* f.seek(0); f.writelines(lines) on a file opened 'r+': the new text
\* overwrites from the start and whatever the old text had beyond it stays
WriteInPlace(old, new) ==
    new \o SubSeq(old, Len(new) + 1, Len(old))

load_missed_prompts(exists, bytes) ==
    IF ~exists THEN <<>>
    ELSE LET ls == Lines(bytes)
         IN  [i \in 1..(Len(ls) - 1) |-> Split(Strip(ls[i + 1]))[1]]

\* the row f"{prompt},{count}\n"
Row(prompt, count) == Render(prompt) \o <<",">> \o IntStr(count) \o <<NL>>

\* a plausible slip: the branch that appends a new row is lost
log_missed_prompt_noappend(prompt, exists, bytes) ==
    LET b1    == IF exists THEN bytes ELSE Header
        ls    == Lines(b1)
        hits  == {i \in 1..Len(ls) : StartsWith(ls[i], prompt)}
    IN  IF prompt = None /\ ls # <<>>
        THEN [raised |-> "TypeError", exists |-> TRUE, bytes |-> b1]
        ELSE IF prompt # None /\ hits # {}
        THEN LET i     == CHOOSE h \in hits : \A j \in hits : h <= j
                 parts == Split(Strip(ls[i]))
             IN  IF Len(parts) < 2
                 THEN [raised |-> "IndexError", exists |-> TRUE, bytes |-> b1]
                 ELSE IF ~IntParse(parts[2]).ok
                 THEN [raised |-> "ValueError", exists |-> TRUE, bytes |-> b1]
                 ELSE [raised |-> "none", exists |-> TRUE,
                       bytes  |-> WriteInPlace(b1, Concat(
                           [ls EXCEPT ![i] = Row(prompt, IntParse(parts[2]).val + 1)]))]
        ELSE [raised |-> "none", exists |-> TRUE, bytes |-> WriteInPlace(b1, Concat(ls))]

\* a plausible slip: the prompt is trimmed before the rows are scanned
log_missed_prompt_stripped(prompt, exists, bytes) ==
    LET b1    == IF exists THEN bytes ELSE Header
        ls    == Lines(b1)
        hits  == {i \in 1..Len(ls) : StartsWith(ls[i], Strip(prompt))}
    IN  IF prompt = None /\ ls # <<>>
        THEN [raised |-> "TypeError", exists |-> TRUE, bytes |-> b1]
        ELSE IF prompt # None /\ hits # {}
        THEN LET i     == CHOOSE h \in hits : \A j \in hits : h <= j
                 parts == Split(Strip(ls[i]))
             IN  IF Len(parts) < 2
                 THEN [raised |-> "IndexError", exists |-> TRUE, bytes |-> b1]
                 ELSE IF ~IntParse(parts[2]).ok
                 THEN [raised |-> "ValueError", exists |-> TRUE, bytes |-> b1]
                 ELSE [raised |-> "none", exists |-> TRUE,
                       bytes  |-> WriteInPlace(b1, Concat(
                           [ls EXCEPT ![i] = Row(prompt, IntParse(parts[2]).val + 1)]))]
        ELSE [raised |-> "none", exists |-> TRUE,
              bytes  |-> WriteInPlace(b1, Concat(Append(ls, Row(prompt, 1))))]

\* log_missed_prompt(prompt) on the file (exists, bytes): the file afterwards
\* and the exception that ended the call, if any.  An exception leaves the
\* `with` block before seek and writelines, so only the creation of the file
\* (lines 173-175) has happened.
log_missed_prompt(prompt, exists, bytes) ==
    LET b1    == IF exists THEN bytes ELSE Header
        ls    == Lines(b1)
        hits  == {i \in 1..Len(ls) : StartsWith(ls[i], prompt)}
    IN  IF prompt = None /\ ls # <<>>
        THEN [raised |-> "TypeError", exists |-> TRUE, bytes |-> b1]
        ELSE IF prompt # None /\ hits # {}
        THEN LET i     == CHOOSE h \in hits : \A j \in hits : h <= j
                 parts == Split(Strip(ls[i]))
             IN  IF Len(parts) < 2
                 THEN [raised |-> "IndexError", exists |-> TRUE, bytes |-> b1]
                 ELSE IF ~IntParse(parts[2]).ok
                 THEN [raised |-> "ValueError", exists |-> TRUE, bytes |-> b1]
                 ELSE [raised |-> "none", exists |-> TRUE,
                       bytes  |-> WriteInPlace(b1, Concat(
                           [ls EXCEPT ![i] = Row(prompt, IntParse(parts[2]).val + 1)]))]
        ELSE [raised |-> "none", exists |-> TRUE,
              bytes  |-> WriteInPlace(b1, Concat(Append(ls, Row(prompt, 1))))]

(***************************************************************************)
(* Widget texts.  A label's text is kept as the f-string's parts.          *)
(***************************************************************************)
\* error_label: "", "No prompts match the specified range.",
\* or f"Incorrect word: {user_input}"
NoError == [kind |-> "empty", word |-> <<>>]

NoMatch == [kind |-> "nomatch", word |-> <<>>]

Incorrect(user_input) == [kind |-> "incorrect", word |-> user_input]

\* prompt_label: "Prompt: " or f"Prompt: {prompt} (Solutions: {count})"
BlankPrompt == [shown |-> FALSE, prompt |-> <<>>, solutions |-> 0]

PromptText(prompt, count) == [shown |-> TRUE, prompt |-> prompt, solutions |-> count]

\* two digits after the point of f"{percentage:.2f}"
Percent2f(solved, total) ==
    LET h == IF total > 0 THEN ((solved * 20000) \div total + 1) \div 2 ELSE 0
    IN  NatStr(h \div 100) \o <<".">> \o NatStr((h % 100) \div 10) \o NatStr(h % 10)

\* tracker_label: f"Prompts Solved: {solved}/{total} ({percentage}%)"
TrackerText(solved, total, percentage) ==
    [solved |-> solved, total |-> total, percentage |-> percentage]

\* line 67: "Prompts Solved: 0/0 (0%)"
InitialTracker == TrackerText(0, 0, <<"0">>)

\* update_tracker
update_tracker(solved, total) ==
    TrackerText(solved, total, Percent2f(solved, total))

(***************************************************************************)
(* Prompt selection.                                                       *)
(***************************************************************************)
\* a plausible slip: the entry is not read, the minimum is always 0
get_min_solutions_lax(text) == 0

get_min_solutions(text) ==
    IF IntParse(text).ok THEN IntParse(text).val ELSE 0

\* float('inf') is inf = TRUE
get_max_solutions(text) ==
    IF IntParse(text).ok THEN [inf |-> FALSE, val |-> IntParse(text).val]
    ELSE [inf |-> TRUE, val |-> 0]

\* min_sols <= count <= max_sols
WithinBounds(count, min_sols, max_sols) ==
    min_sols <= count /\ (max_sols.inf \/ count <= max_sols.val)

\* self.substrings[key] on the defaultdict(int): a missing key is inserted with 0
DefaultGet(subs, key) ==
    IF key \in DOMAIN subs THEN subs ELSE subs @@ (key :> 0)

SeqToSet(q) == {q[i] : i \in 1..Len(q)}

\* a plausible slip: the bounds are applied to the missed prompts as well
Candidates_bounded(subs, pool, min_text, max_text, missed_only) ==
    {k \in IF missed_only THEN SeqToSet(pool) ELSE DOMAIN subs :
        /\ k \in DOMAIN subs
        /\ WithinBounds(subs[k], get_min_solutions(min_text), get_max_solutions(max_text))}

\* the candidates of show_prompt, lines 105-108
Candidates(subs, pool, min_text, max_text, missed_only) ==
    IF missed_only THEN SeqToSet(pool)
    ELSE {k \in DOMAIN subs :
            WithinBounds(subs[k], get_min_solutions(min_text), get_max_solutions(max_text))}

\* show_prompt: every state it can leave behind (random.choice picks any candidate)
show_prompt(subs, cur, plabel, elabel, pool, min_text, max_text, missed_only) ==
    LET cands == Candidates(subs, pool, min_text, max_text, missed_only)
    IN  IF cands # {}
        THEN {[substrings     |-> DefaultGet(subs, p),
               current_prompt |-> p,
               prompt_label   |-> PromptText(p, DefaultGet(subs, p)[p]),
               error_label    |-> elabel,
               sel            |-> "picked"] : p \in cands}
        ELSE {[substrings     |-> subs,
               current_prompt |-> cur,
               prompt_label   |-> plabel,
               error_label    |-> NoMatch,
               sel            |-> "empty"]}

RECURSIVE Arrangements(_, _)
\* the sequences of k distinct elements of S
Arrangements(S, k) ==
    IF k = 0 THEN {<<>>}
    ELSE UNION {{Append(q, x) : x \in S \ SeqToSet(q)} : q \in Arrangements(S, k - 1)}

\* a plausible slip: the slice [:5] is lost, every solution is shown
Revealed_uncapped(solutions) ==
    Arrangements(solutions, Cardinality(solutions))

\* random.shuffle(solutions) then solutions[:5]: any arrangement of
\* min(5, n) distinct solutions
Revealed(solutions) ==
    LET n == Cardinality(solutions)
        k == IF n < 5 THEN n ELSE 5
    IN  Arrangements(solutions, k)

\* [word for word in self.unique_words if prompt in word]
Solutions(words, prompt) == {w \in words : IsSubstring(prompt, w)}

(***************************************************************************)
(* Inputs of the model: corpus files, typed answers, typed bounds.         *)
(***************************************************************************)
\* dict.txt with a padded, capitalised word, a blank line and a repeated
\* word: abc occurs in two words, bcd in one
CorpusPlain ==
    << <<" ","A","b","c","d">>, <<"a","b","c">>, <<>>, <<"a","b","c">> >>

\* dict.txt with a two-word entry: its fragments are "a b", " bc" and "bcd"
CorpusSpaced == << <<"a"," ","b","c","d">> >>

\* dict.txt whose words yield no fragment at all
CorpusShort == << <<"a","b">>, <<"a","-","b">> >>

Corpora == {CorpusPlain, CorpusSpaced, CorpusShort}

\* dict.txt holding the word exit, whose fragments are "exi" and "xit"
CorpusExit == << <<"e","x","i","t">> >>

\* the corpus files a single run is started with
RunCorpora == Corpora \cup {CorpusExit}

\* dict.txt with six entries that hold "abc" and no other fragment
CorpusSix ==
    << <<"a","b","c">>, <<"a","b","c","-">>, <<"-","a","b","c">>,
       <<"-","a","b","c","-">>, <<"a","b","c","-","a">>, <<"a","-","a","b","c">> >>

\* dict.txt with two entries that hold a comma: the fragments "a,b" and "a,c"
CorpusComma == << <<"a",",","b">>, <<"a",",","c">> >>

\* lines the indexer's specification builds corpus files from
IndexLines ==
    { <<"a","b","c">>, <<" ","A","B","A","B","A"," ">>, <<"a","b","a","b","a">>,
      <<"a","b">>, <<"b","-","c","a","b">>, <<>>, <<"b","a","b"," ","a">> }

RECURSIVE SeqsUpTo(_, _)
SeqsUpTo(S, n) ==
    IF n = 0 THEN {<<>>}
    ELSE LET shorter == SeqsUpTo(S, n - 1)
         IN  shorter \cup {Append(q, x) : q \in {r \in shorter : Len(r) = n - 1}, x \in S}

\* what the user types into input_entry before pressing Return; both
\* handle_user_input and skip_prompt empty the entry, so its text lives only
\* in the step that submits it
Inputs ==
    { <<" ","A","b","c","d">>, <<"a"," ","b","c","d">>, <<"a","b">>,
      <<" ","E","x","i","t">> }

\* what the user types into min_entry and max_entry
MinTexts == { <<"2">>, <<"x">> }

MaxTexts == { <<"1">>, <<>> }

\* the answer typed and the minimum entered where runs follow one another
LifeInputs == { <<" ","A","b","c","d">> }

LifeMinTexts == { <<"2">> }

\* the answer typed where the revealed solutions are looked at
RevealInputs == { <<"a","b","c">> }

\* "exit", line 147
ExitWord == <<"e","x","i","t">>

(***************************************************************************)
(* State.                                                                  *)
(***************************************************************************)
NoEvent ==
    [op |-> "none", text |-> <<>>, raised |-> "none", sel |-> "none", prompt |-> None]

\* the callback that runs, with the current prompt it finds when it starts
Event(op, text, raised, sel) ==
    [op |-> op, text |-> text, raised |-> raised, sel |-> sel, prompt |-> current_prompt]

EmptyCounts == [k \in {} |-> 0]

\* the session's fields before GameApp is constructed
NoSession ==
    /\ skipped_prompts = <<>>
    /\ missed_prompts = <<>>
    /\ solved_prompts = 0
    /\ total_prompts = 0
    /\ current_prompt = None
    /\ prompt_label = BlankPrompt
    /\ error_label = NoError
    /\ solutions_listbox = <<>>
    /\ tracker_label = InitialTracker
    /\ min_entry = <<>>
    /\ max_entry = <<>>
    /\ missed_only_var = FALSE
    /\ pool_at_start = <<>>

InitWith(files) ==
    /\ corpus_file \in files
    /\ pc = "load"
    /\ runs = 1
    /\ unique_words = {}
    /\ substrings = EmptyCounts
    /\ NoSession
    /\ log_exists = FALSE
    /\ log_bytes = <<>>
    /\ event = NoEvent
    /\ skip_count = EmptyCounts

Init == InitWith(Corpora)

InitRun == InitWith(RunCorpora)

InitComma == InitWith({CorpusComma})

InitReveal == InitWith({CorpusSix, CorpusPlain})

InitIndex == InitWith(SeqsUpTo(IndexLines, MaxLines))

sessionVars == <<skipped_prompts, missed_prompts, solved_prompts, total_prompts,
                 current_prompt, prompt_label, error_label, solutions_listbox,
                 tracker_label, min_entry, max_entry, missed_only_var, pool_at_start>>

logVars == <<log_exists, log_bytes>>

corpusVars == <<corpus_file, unique_words, substrings>>

(***************************************************************************)
(* Operations.                                                             *)
(***************************************************************************)
\* line 231: unique_words, substrings = process_words("dict.txt"), lines 10-28
process_words ==
    /\ pc = "load"
    /\ unique_words' = ReadWords(corpus_file)
    /\ substrings' = CountSubstrings(ReadWords(corpus_file))
    /\ pc' = "construct"
    /\ UNCHANGED <<corpus_file, runs, sessionVars, logVars, event, skip_count>>

\* line 235: GameApp(root, unique_words, substrings): __init__, setup_ui and
\* the show_prompt that ends setup_ui
GameApp_init ==
    /\ pc = "construct"
    /\ \E o \in show_prompt(substrings, None, BlankPrompt, NoError,
                            load_missed_prompts(log_exists, log_bytes),
                            <<"1">>, <<"1","0","0","0">>, FALSE) :
          /\ substrings' = o.substrings
          /\ current_prompt' = o.current_prompt
          /\ prompt_label' = o.prompt_label
          /\ error_label' = o.error_label
          /\ event' = Event("start", <<>>, "none", o.sel)
    /\ skipped_prompts' = <<>>
    /\ missed_prompts' = load_missed_prompts(log_exists, log_bytes)
    /\ pool_at_start' = load_missed_prompts(log_exists, log_bytes)
    /\ solved_prompts' = 0
    /\ total_prompts' = 0
    /\ solutions_listbox' = <<>>
    /\ tracker_label' = InitialTracker
    /\ min_entry' = <<"1">>
    /\ max_entry' = <<"1","0","0","0">>
    /\ missed_only_var' = FALSE
    /\ pc' = "running"
    /\ UNCHANGED <<corpus_file, runs, unique_words, logVars, skip_count>>

\* a plausible slip: the membership test is dropped
Accepts_any(user_input, words, prompt) ==
    prompt # None /\ IsSubstring(prompt, user_input)

\* the test of line 149; with current_prompt None a word of the corpus makes
\* `None in user_input` raise instead (see Raises)
Accepts(user_input, words, prompt) ==
    user_input \in words /\ prompt # None /\ IsSubstring(prompt, user_input)

\* line 149 raising TypeError: 'in <string>' requires string as left operand
Raises(user_input, words, prompt) ==
    user_input \in words /\ prompt = None

RECURSIVE SumOver(_, _)
SumOver(f, keys) ==
    IF keys = {} THEN 0
    ELSE LET k == CHOOSE x \in keys : TRUE
         IN  f[k] + SumOver(f, keys \ {k})

\* skips completed so far, over all runs
CompletedSkips == SumOver(skip_count, DOMAIN skip_count)

Bump(f, key) ==
    IF key \in DOMAIN f THEN [f EXCEPT ![key] = @ + 1] ELSE f @@ (key :> 1)

\* a plausible slip: the exit word is tested after the word-membership test,
\* so an exit word that is a corpus word holding the prompt is scored
handle_user_input_exit_late(text) ==
    /\ pc = "running"
    /\ Lower(Strip(text)) = ExitWord
    /\ IF Accepts(Lower(Strip(text)), unique_words, current_prompt)
       THEN /\ total_prompts < MaxTotal
            /\ solved_prompts' = solved_prompts + 1
            /\ total_prompts' = total_prompts + 1
            /\ tracker_label' = update_tracker(solved_prompts + 1, total_prompts + 1)
            /\ \E o \in show_prompt(substrings, current_prompt, prompt_label, error_label,
                                    missed_prompts, min_entry, max_entry, missed_only_var) :
                  /\ substrings' = o.substrings
                  /\ current_prompt' = o.current_prompt
                  /\ prompt_label' = o.prompt_label
                  /\ error_label' = o.error_label
                  /\ event' = Event("submit", text, "none", o.sel)
            /\ UNCHANGED <<corpus_file, unique_words, pc, runs, skipped_prompts,
                           missed_prompts, min_entry, max_entry, missed_only_var,
                           pool_at_start, logVars, skip_count>>
            /\ solutions_listbox' \in Revealed(Solutions(unique_words, current_prompt))
       ELSE /\ pc' = "quit"
            /\ event' = Event("submit", text, "none", "none")
            /\ UNCHANGED <<corpusVars, runs, sessionVars, logVars, skip_count>>

\* handle_user_input, line 147-148: root.quit() ends mainloop and with it the
\* program; no callback runs afterwards
handle_user_input_exit(text) ==
    /\ pc = "running"
    /\ Lower(Strip(text)) = ExitWord
    /\ pc' = "quit"
    /\ event' = Event("submit", text, "none", "none")
    /\ UNCHANGED <<corpusVars, runs, sessionVars, logVars, skip_count>>

\* handle_user_input, line 149 raising: Tk reports the exception and goes on
handle_user_input_raise(text) ==
    /\ pc = "running"
    /\ Lower(Strip(text)) # ExitWord
    /\ Raises(Lower(Strip(text)), unique_words, current_prompt)
    /\ event' = Event("submit", text, "TypeError", "none")
    /\ UNCHANGED <<corpusVars, pc, runs, sessionVars, logVars, skip_count>>

\* handle_user_input, lines 149-155, display_solutions and show_prompt
handle_user_input_accept(text) ==
    /\ pc = "running"
    /\ total_prompts < MaxTotal
    /\ Lower(Strip(text)) # ExitWord
    /\ Accepts(Lower(Strip(text)), unique_words, current_prompt)
    /\ solved_prompts' = solved_prompts + 1
    /\ total_prompts' = total_prompts + 1
    /\ tracker_label' = update_tracker(solved_prompts + 1, total_prompts + 1)
    /\ \E o \in show_prompt(substrings, current_prompt, prompt_label, error_label,
                            missed_prompts, min_entry, max_entry, missed_only_var) :
          /\ substrings' = o.substrings
          /\ current_prompt' = o.current_prompt
          /\ prompt_label' = o.prompt_label
          /\ error_label' = o.error_label
          /\ event' = Event("submit", text, "none", o.sel)
    /\ UNCHANGED <<corpus_file, unique_words, pc, runs, skipped_prompts, missed_prompts,
                   min_entry, max_entry, missed_only_var, pool_at_start, logVars,
                   skip_count>>
    /\ solutions_listbox' \in Revealed(Solutions(unique_words, current_prompt))

\* handle_user_input, lines 156-157
handle_user_input_reject(text) ==
    /\ pc = "running"
    /\ Lower(Strip(text)) # ExitWord
    /\ ~Raises(Lower(Strip(text)), unique_words, current_prompt)
    /\ ~Accepts(Lower(Strip(text)), unique_words, current_prompt)
    /\ error_label' = Incorrect(Lower(Strip(text)))
    /\ event' = Event("submit", text, "none", "none")
    /\ UNCHANGED <<corpusVars, pc, runs, skipped_prompts, missed_prompts, solved_prompts,
                   total_prompts, current_prompt, prompt_label, solutions_listbox,
                   tracker_label, min_entry, max_entry, missed_only_var, pool_at_start,
                   logVars, skip_count>>

\* a plausible slip: the prompt is appended to the skipped list before the
\* log is updated, so a failing update leaves it there
skip_prompt_raise_late ==
    /\ pc = "running"
    /\ LET r == log_missed_prompt(current_prompt, log_exists, log_bytes)
       IN  /\ r.raised # "none"
           /\ log_exists' = r.exists
           /\ log_bytes' = r.bytes
           /\ event' = Event("skip", <<>>, r.raised, "none")
    /\ skipped_prompts' = Append(skipped_prompts, current_prompt)
    /\ UNCHANGED <<corpusVars, pc, runs, missed_prompts, solved_prompts, total_prompts,
                   current_prompt, prompt_label, error_label, solutions_listbox,
                   tracker_label, min_entry, max_entry, missed_only_var, pool_at_start,
                   skip_count>>

\* skip_prompt (the space bar, handle_spacebar) when log_missed_prompt raises:
\* the file may already have been created, nothing else has changed
skip_prompt_raise ==
    /\ pc = "running"
    /\ LET r == log_missed_prompt(current_prompt, log_exists, log_bytes)
       IN  /\ r.raised # "none"
           /\ log_exists' = r.exists
           /\ log_bytes' = r.bytes
           /\ event' = Event("skip", <<>>, r.raised, "none")
    /\ UNCHANGED <<corpusVars, pc, runs, sessionVars, skip_count>>

\* skip_prompt when open() in log_missed_prompt (line 174 or 177) is refused
\* by the operating system: OSError leaves line 161, the file is as it was
skip_prompt_oserror ==
    /\ pc = "running"
    /\ event' = Event("skip", <<>>, "OSError", "none")
    /\ UNCHANGED <<corpusVars, pc, runs, sessionVars, logVars, skip_count>>

\* a plausible slip: line 164 is lost, a skip is not counted as an attempt
skip_prompt_done_uncounted ==
    /\ pc = "running"
    /\ total_prompts < MaxTotal
    /\ CompletedSkips < MaxSkips
    /\ current_prompt # None
    /\ LET r == log_missed_prompt(current_prompt, log_exists, log_bytes)
       IN  /\ r.raised = "none"
           /\ log_exists' = r.exists
           /\ log_bytes' = r.bytes
    /\ skipped_prompts' = Append(skipped_prompts, current_prompt)
    /\ tracker_label' = update_tracker(solved_prompts, total_prompts)
    /\ \E o \in show_prompt(substrings, current_prompt, prompt_label, error_label,
                            missed_prompts, min_entry, max_entry, missed_only_var) :
          /\ substrings' = o.substrings
          /\ current_prompt' = o.current_prompt
          /\ prompt_label' = o.prompt_label
          /\ event' = Event("skip", <<>>, "none", o.sel)
    /\ error_label' = NoError
    /\ skip_count' = Bump(skip_count, current_prompt)
    /\ UNCHANGED <<corpus_file, unique_words, pc, runs, missed_prompts, solved_prompts,
                   total_prompts, min_entry, max_entry, missed_only_var, pool_at_start>>
    /\ solutions_listbox' \in Revealed(Solutions(unique_words, current_prompt))

\* skip_prompt, lines 161-169, with display_solutions and show_prompt
skip_prompt_done ==
    /\ pc = "running"
    /\ total_prompts < MaxTotal
    /\ CompletedSkips < MaxSkips
    /\ current_prompt # None
    /\ LET r == log_missed_prompt(current_prompt, log_exists, log_bytes)
       IN  /\ r.raised = "none"
           /\ log_exists' = r.exists
           /\ log_bytes' = r.bytes
    /\ skipped_prompts' = Append(skipped_prompts, current_prompt)
    /\ total_prompts' = total_prompts + 1
    /\ tracker_label' = update_tracker(solved_prompts, total_prompts + 1)
    /\ \E o \in show_prompt(substrings, current_prompt, prompt_label, error_label,
                            missed_prompts, min_entry, max_entry, missed_only_var) :
          /\ substrings' = o.substrings
          /\ current_prompt' = o.current_prompt
          /\ prompt_label' = o.prompt_label
          /\ event' = Event("skip", <<>>, "none", o.sel)
    /\ error_label' = NoError
    /\ skip_count' = Bump(skip_count, current_prompt)
    /\ UNCHANGED <<corpus_file, unique_words, pc, runs, missed_prompts, solved_prompts,
                   min_entry, max_entry, missed_only_var, pool_at_start>>
    /\ solutions_listbox' \in Revealed(Solutions(unique_words, current_prompt))

\* the user clicks the "Show Only Missed Prompts" checkbox
ToggleMissedOnly ==
    /\ pc = "running"
    /\ missed_only_var' = ~missed_only_var
    /\ event' = Event("edit", <<>>, "none", "none")
    /\ UNCHANGED <<corpusVars, pc, runs, skipped_prompts, missed_prompts, solved_prompts,
                   total_prompts, current_prompt, prompt_label, error_label,
                   solutions_listbox, tracker_label, min_entry, max_entry, pool_at_start,
                   logVars, skip_count>>

\* the user edits min_entry
SetMin(text) ==
    /\ pc = "running"
    /\ min_entry' = text
    /\ event' = Event("edit", <<>>, "none", "none")
    /\ UNCHANGED <<corpusVars, pc, runs, skipped_prompts, missed_prompts, solved_prompts,
                   total_prompts, current_prompt, prompt_label, error_label,
                   solutions_listbox, tracker_label, max_entry, missed_only_var,
                   pool_at_start, logVars, skip_count>>

\* the user edits max_entry
SetMax(text) ==
    /\ pc = "running"
    /\ max_entry' = text
    /\ event' = Event("edit", <<>>, "none", "none")
    /\ UNCHANGED <<corpusVars, pc, runs, skipped_prompts, missed_prompts, solved_prompts,
                   total_prompts, current_prompt, prompt_label, error_label,
                   solutions_listbox, tracker_label, min_entry, missed_only_var,
                   pool_at_start, logVars, skip_count>>

\* the process ends (exit, or the window is closed) and the program is started
\* again, dict.txt as it is or replaced; missed_prompts.txt stays
Restart ==
    /\ pc \in {"running", "quit"}
    /\ runs < MaxRuns
    /\ corpus_file' \in Corpora \cup {corpus_file}
    /\ pc' = "load"
    /\ runs' = runs + 1
    /\ unique_words' = {}
    /\ substrings' = EmptyCounts
    /\ skipped_prompts' = <<>>
    /\ missed_prompts' = <<>>
    /\ solved_prompts' = 0
    /\ total_prompts' = 0
    /\ current_prompt' = None
    /\ prompt_label' = BlankPrompt
    /\ error_label' = NoError
    /\ solutions_listbox' = <<>>
    /\ tracker_label' = InitialTracker
    /\ min_entry' = <<>>
    /\ max_entry' = <<>>
    /\ missed_only_var' = FALSE
    /\ pool_at_start' = <<>>
    /\ event' = NoEvent
    /\ UNCHANGED <<logVars, skip_count>>

\* the program over several runs, the log file carried from one to the next.
\* Here the user answers with one word and edits only the minimum; leaving by
\* the exit word, the TypeError of a submission while no prompt is set (both
\* touch nothing a later run reads), a refused open() and max_entry are left
\* to NextRun.
Next ==
    \/ process_words
    \/ GameApp_init
    \/ \E text \in LifeInputs : handle_user_input_accept(text)
    \/ \E text \in LifeInputs : handle_user_input_reject(text)
    \/ skip_prompt_raise
    \/ skip_prompt_done
    \/ ToggleMissedOnly
    \/ \E text \in LifeMinTexts : SetMin(text)
    \/ Restart

Spec == Init /\ [][Next]_vars

\* one run of the program, from its start to exit, with every input
NextRun ==
    \/ process_words
    \/ GameApp_init
    \/ \E text \in Inputs : handle_user_input_exit(text)
    \/ \E text \in Inputs : handle_user_input_raise(text)
    \/ \E text \in Inputs : handle_user_input_accept(text)
    \/ \E text \in Inputs : handle_user_input_reject(text)
    \/ skip_prompt_raise
    \/ skip_prompt_oserror
    \/ skip_prompt_done
    \/ ToggleMissedOnly
    \/ \E text \in MinTexts : SetMin(text)
    \/ \E text \in MaxTexts : SetMax(text)

SpecRun == InitRun /\ [][NextRun]_vars

\* one run in which the user answers "abc" or skips, on the corpus whose
\* fragment has six solutions and on the plain one
NextReveal ==
    \/ process_words
    \/ GameApp_init
    \/ \E text \in RevealInputs : handle_user_input_accept(text)
    \/ skip_prompt_done

SpecReveal == InitReveal /\ [][NextReveal]_vars

\* skips and restarts of a program first started on the corpus with commas
NextComma ==
    \/ process_words
    \/ GameApp_init
    \/ skip_prompt_raise
    \/ skip_prompt_done
    \/ ToggleMissedOnly
    \/ Restart

SpecComma == InitComma /\ [][NextComma]_vars

\* the indexer alone, over every corpus file of up to MaxLines lines
NextIndex == process_words

SpecIndex == InitIndex /\ [][NextIndex]_vars

(***************************************************************************)
(* Properties.                                                             *)
(***************************************************************************)
\* the characters a stripped, lowercased corpus line of the model can hold
CorpusChars == {"a", "b", "c", "d", "-", " "}

\* every 3-character string without a hyphen
Fragments3 == {f \in [1..3 -> CorpusChars] : ~HasChar(f, "-")}

\* the distinct trimmed, lowercased, non-empty lines of dict.txt that hold f
WordsHolding(f) ==
    {w \in {Lower(Strip(corpus_file[i])) : i \in 1..Len(corpus_file)} :
        w # <<>> /\ IsSubstring(f, w)}

\* C1: once process_words has loaded the corpus, every 3-character
\* hyphen-free string f is a key of the frequency mapping exactly when some
\* distinct trimmed, lowercased word holds f as a substring, and its count is
\* the number of such words; the mapping has no other keys.
C1_FrequencyIsWordCount ==
    pc # "load" =>
        /\ DOMAIN substrings \subseteq Fragments3
        /\ \A f \in Fragments3 :
              LET n == Cardinality(WordsHolding(f))
              IN  /\ (f \in DOMAIN substrings) <=> (n >= 1)
                  /\ f \in DOMAIN substrings => substrings[f] = n

\* C1 witness: a file with a word listed twice (once padded and in capitals),
\* a fragment that occurs twice in that word, and a word of two characters
C1_Witness ==
    /\ pc = "construct"
    /\ corpus_file = << <<"a","b","a","b","a">>, <<" ","A","B","A","B","A"," ">>,
                        <<"a","b">> >>
    /\ unique_words = { <<"a","b","a","b","a">>, <<"a","b">> }
    /\ substrings[<<"a","b","a">>] = 1
    /\ substrings[<<"b","a","b">>] = 1
    /\ DOMAIN substrings = { <<"a","b","a">>, <<"b","a","b">> }

\* the text before the first comma of a raw line of the log
KeyField(line) == Split(line)[1]

\* the rows of a log file below its first line
RowsOf(exists, bytes) == IF exists /\ bytes # <<>> THEN Tail(Lines(bytes)) ELSE <<>>

LogRows == RowsOf(log_exists, log_bytes)

C3_CompletedSkip ==
    [][(event'.op = "skip" /\ event'.raised = "none") =>
         /\ total_prompts' = total_prompts + 1
         /\ solved_prompts' = solved_prompts
         /\ skipped_prompts' = Append(skipped_prompts, current_prompt)
         /\ log_exists'
         /\ \E i \in 2..Len(Lines(log_bytes')) :
               KeyField(Lines(log_bytes')[i]) = current_prompt
         /\ LET cands == Candidates(substrings, missed_prompts, min_entry, max_entry,
                                    missed_only_var)
            IN  \/ event'.sel = "picked" /\ current_prompt' \in cands
                \/ event'.sel = "empty" /\ cands = {} /\ current_prompt' = current_prompt
      ]_vars

\* C3 witness: the second skip of a run has completed
C3_Witness ==
    /\ event.op = "skip"
    /\ event.raised = "none"
    /\ total_prompts = 2
    /\ Len(skipped_prompts) = 2
    /\ Len(LogRows) >= 1

\* the miss-count a raw row of the log carries; -1 when it carries none
RowCount(line) ==
    LET parts == Split(Strip(line))
    IN  IF Len(parts) >= 2 /\ IntParse(parts[2]).ok THEN IntParse(parts[2]).val ELSE 0 - 1

\* C4: starting from an absent log file, over any skips in one or several
\* runs, every prompt skipped so far has a log row whose miss-count is the
\* number of times it has been skipped.
C4_CountIsNumberOfSkips ==
    \A p \in DOMAIN skip_count :
        \E i \in 1..Len(LogRows) :
            /\ KeyField(LogRows[i]) = p
            /\ RowCount(LogRows[i]) = skip_count[p]

\* C5: once the corpus is loaded no session action changes the frequency
\* mapping: every key is a fragment of some corpus word and its count is at
\* least 1 and equal to what the indexer computed.
C5_MappingImmutable ==
    pc \in {"running", "quit"} =>
        /\ substrings = CountSubstrings(ReadWords(corpus_file))
        /\ \A k \in DOMAIN substrings :
              /\ substrings[k] >= 1
              /\ \E w \in unique_words : IsSubstring(k, w)

C7_EmptySelectionReported ==
    [][event'.sel = "empty" =>
         /\ error_label' = NoMatch
         /\ current_prompt' = current_prompt
         /\ event'.raised = "none"
      ]_vars

\* C8: a submission that is neither the exit word nor a corpus word holding
\* the current prompt is reported in the error message (here: as typed, or
\* trimmed and lowercased) and changes no session state: solved, total, the
\* skipped list, the current prompt, the missed-only pool and the log file.
C8_RejectedSubmissionReported ==
    [][(/\ event'.op = "submit"
        /\ Lower(Strip(event'.text)) # ExitWord
        /\ ~(/\ Lower(Strip(event'.text)) \in unique_words
             /\ current_prompt # None
             /\ IsSubstring(current_prompt, Lower(Strip(event'.text))))) =>
         /\ error_label'.kind = "incorrect"
         /\ error_label'.word \in {event'.text, Lower(Strip(event'.text))}
         /\ UNCHANGED <<solved_prompts, total_prompts, skipped_prompts, current_prompt,
                        missed_prompts, log_exists, log_bytes>>
      ]_vars

\* C9: with missed-only inactive a selection installs only a key of the
\* frequency mapping whose count c has min <= c <= max for the bounds in the
\* entries, a min text that is no integer counting as 0 and a max text that is
\* no integer as no bound; it finds no candidate only when no key satisfies that.
C9_SelectionWithinBounds ==
    [][(pc' = "running" /\ ~missed_only_var' /\ event'.sel \in {"picked", "empty"}) =>
         LET lo    == IF IntParse(min_entry').ok THEN IntParse(min_entry').val ELSE 0
             inRange(c) ==
                 /\ lo <= c
                 /\ IntParse(max_entry').ok => c <= IntParse(max_entry').val
         IN  /\ event'.sel = "picked" =>
                  /\ current_prompt' \in DOMAIN substrings
                  /\ inRange(substrings[current_prompt'])
             /\ event'.sel = "empty" =>
                  \A k \in DOMAIN substrings : ~inRange(substrings[k])
      ]_vars

\* C9 witness: a selection after a skip with a min text and a max text that
\* are no integers
C9_Witness ==
    /\ pc = "running"
    /\ ~missed_only_var
    /\ event.op = "skip"
    /\ event.sel = "picked"
    /\ min_entry = <<"x">>
    /\ max_entry = <<>>

\* C10: no step lowers the miss-count of a row of the log or removes the row
\* of a fragment, within a run or across restarts.
C10_LogMonotone ==
    [][LET before == RowsOf(log_exists, log_bytes)
           after  == RowsOf(log_exists', log_bytes')
       IN  \A i \in 1..Len(before) :
              \E j \in 1..Len(after) :
                  /\ KeyField(after[j]) = KeyField(before[i])
                  /\ RowCount(after[j]) >= RowCount(before[i])
      ]_vars

\* the hundredths that a percentage text of the form d...d.dd denotes; -1 for
\* a text of any other form
Hundredths(text) ==
    LET n == Len(text)
    IN  IF /\ n >= 4
           /\ text[n - 2] = "."
           /\ \A i \in 1..n : i # n - 2 => IsDigit(text[i])
           /\ n = 4 \/ text[1] # "0"
        THEN 100 * DigitsValue(SubSeq(text, 1, n - 3)) + DigitsValue(SubSeq(text, n - 1, n))
        ELSE 0 - 1

\* C11: from the start of the session on, the tracker shows the current
\* solved and total counts and a percentage with two decimals: solved / total
\* x 100 rounded to the nearest hundredth when total > 0, and 0.00 when total
\* is 0.
C11_TrackerReportsCounts ==
    pc \in {"running", "quit"} =>
        /\ tracker_label.solved = solved_prompts
        /\ tracker_label.total = total_prompts
        /\ LET h == Hundredths(tracker_label.percentage)
           IN  IF total_prompts > 0
               THEN /\ h >= 0
                    /\ 2 * (h * total_prompts - 10000 * solved_prompts) <= total_prompts
                    /\ 2 * (10000 * solved_prompts - h * total_prompts) <= total_prompts
               ELSE tracker_label.percentage = <<"0", ".", "0", "0">>

\* C12: a submission that is the exit word once trimmed and lowercased ends
\* the session and is not scored: solved, total, the skipped list and the log
\* file stay as they were, also when the exit word is a corpus word that holds
\* the current prompt; after it no callback changes the session.
C12_ExitEndsSessionUnscored ==
    [][/\ (event'.op = "submit" /\ Lower(Strip(event'.text)) = ExitWord) =>
            /\ pc' = "quit"
            /\ UNCHANGED <<solved_prompts, total_prompts, skipped_prompts,
                           log_exists, log_bytes>>
       /\ pc = "quit" => pc' = "load"
      ]_vars

\* C12 witness: " Exit" was typed while the corpus held the word exit and the
\* prompt was one of its fragments, and the session has ended
C12_Witness ==
    /\ pc = "quit"
    /\ event.op = "submit"
    /\ event.text = <<" ","E","x","i","t">>
    /\ ExitWord \in unique_words
    /\ current_prompt # None
    /\ IsSubstring(current_prompt, ExitWord)
    /\ total_prompts = 1

\* C13: whenever a submission or a skip is processed the session holds a
\* current prompt (it is awaiting an answer): no handler runs while the
\* current prompt is None, whatever corpus the session was started with.
C13_HandlersHavePrompt ==
    [][event'.op \in {"submit", "skip"} => current_prompt # None]_vars

\* C14: a skip whose log update fails is aborted before the session changes:
\* total, solved, the skipped list and the current prompt are what they were
\* before the skip (so are the tracker, the revealed solutions and the pool).
C14_FailedSkipChangesNothing ==
    [][(event'.op = "skip" /\ event'.raised # "none") =>
         UNCHANGED <<total_prompts, solved_prompts, skipped_prompts, current_prompt,
                     tracker_label, solutions_listbox, prompt_label, missed_prompts>>
      ]_vars

\* C14 witness: a skip has failed inside log_missed_prompt after the log file
\* was created with its header, and the session counts nothing
C14_Witness ==
    /\ event.op = "skip"
    /\ event.raised = "TypeError"
    /\ log_exists
    /\ log_bytes = Header
    /\ total_prompts = 0
    /\ skipped_prompts = <<>>

\* C17: in every state of a session 0 <= solved <= total and total = solved +
\* the length of the skipped list; no step lowers solved or total and no step
\* raises total by more than 1.
C17_CountsConsistent ==
    /\ [](/\ 0 <= solved_prompts
          /\ solved_prompts <= total_prompts
          /\ total_prompts = solved_prompts + Len(skipped_prompts))
    /\ [][/\ solved_prompts' >= solved_prompts
          /\ total_prompts' >= total_prompts
          /\ total_prompts' <= total_prompts + 1
         ]_vars

\* C17 witness: one prompt solved and one skipped in the same session
C17_Witness ==
    /\ pc = "running"
    /\ solved_prompts = 1
    /\ total_prompts = 2
    /\ Len(skipped_prompts) = 1

\* C15: for a prompt p of 3 lowercase characters without a comma, the prefix
\* test of the log lookup is true of a line exactly when the line is a row
\* below the header whose fragment field is p; a skip of p leaves the header
\* and every row of another fragment as they were, and any row it adds is a
\* row of p.
C15_PrefixMatchIsExact ==
    [][(/\ event'.op = "skip"
        /\ Len(current_prompt) = 3
        /\ Lower(current_prompt) = current_prompt
        /\ ~HasChar(current_prompt, ",")) =>
         LET p      == current_prompt
             before == Lines(IF log_exists THEN log_bytes ELSE Header)
             after  == Lines(log_bytes')
         IN  /\ \A i \in 1..Len(before) :
                   StartsWith(before[i], p) <=> (i > 1 /\ KeyField(before[i]) = p)
             /\ log_exists'
             /\ Len(after) >= Len(before)
             /\ \A i \in 1..Len(before) :
                   (i = 1 \/ KeyField(before[i]) # p) => after[i] = before[i]
             /\ \A i \in (Len(before) + 1)..Len(after) : KeyField(after[i]) = p
      ]_vars

\* C15 witness: "bcd" has been skipped twice while the log held the row of
\* " bc", whose text after the blank is a prefix of "bcd"
C15_Witness ==
    /\ event.op = "skip"
    /\ event.raised = "none"
    /\ \E i, j \in 1..Len(LogRows) :
          /\ LogRows[i] = <<" ","b","c",",","1",NL>>
          /\ LogRows[j] = <<"b","c","d",",","2",NL>>

\* a sequence without repeated elements
NoDuplicates(q) == \A i, j \in 1..Len(q) : q[i] = q[j] => i = j

\* a raw line of the form <fragment>,<integer>\n: two comma-separated fields,
\* a fragment of 3 characters and a decimal integer of at least 1
WellFormedRow(line) ==
    /\ Len(line) >= 1
    /\ line[Len(line)] = NL
    /\ LET parts == Split(SubSeq(line, 1, Len(line) - 1))
       IN  /\ Len(parts) = 2
           /\ Len(parts[1]) = 3
           /\ Len(parts[2]) >= 1
           /\ \A k \in 1..Len(parts[2]) : IsDigit(parts[2][k])
           /\ DigitsValue(parts[2]) >= 1

\* C18: starting from an absent log file, as long as every completed skip was
\* a skip of a 3-character fragment of the indexer, the log file is
\* well-formed: its first line is the header, every other line is
\* <fragment>,<integer> with an integer of at least 1, no two rows have the
\* same fragment field, and the pool the next start would load holds no
\* fragment twice.
C18_LogWellFormed ==
    (log_exists /\ \A p \in DOMAIN skip_count : Len(p) = 3) =>
        LET ls == Lines(log_bytes)
        IN  /\ Len(ls) >= 1
            /\ ls[1] = Header
            /\ \A i \in 2..Len(ls) : WellFormedRow(ls[i])
            /\ \A i, j \in 2..Len(ls) : KeyField(ls[i]) = KeyField(ls[j]) => i = j
            /\ NoDuplicates(load_missed_prompts(log_exists, log_bytes))

\* C16: after a correct answer or a completed skip of prompt p the revealed
\* list holds min(5, n) pairwise distinct words, n being the number of
\* distinct corpus words that hold p, and each of them holds p: the prompt
\* that was answered or skipped, whatever prompt was selected next.
C16_RevealedSolutions ==
    (event.op \in {"submit", "skip"} /\ event.sel \in {"picked", "empty"}) =>
        LET holding == WordsHolding(event.prompt)
            n       == Cardinality(holding)
        IN  /\ Len(solutions_listbox) = IF n < 5 THEN n ELSE 5
            /\ NoDuplicates(solutions_listbox)
            /\ \A i \in 1..Len(solutions_listbox) : solutions_listbox[i] \in holding

\* C16 witness: after a correct answer, a skip of a prompt held by six words
\* has revealed five of them
C16_Witness ==
    /\ event.op = "skip"
    /\ event.sel = "picked"
    /\ solved_prompts = 1
    /\ total_prompts = 2
    /\ Cardinality(WordsHolding(event.prompt)) = 6
    /\ Len(solutions_listbox) = 5

====
